---------------------------- MODULE Spec2Model ----------------------------
(***************************************************************************)
(* Model of halflife/coexpression.py: the coexpression aggregator, the     *)
(* primary-to-secondary id mapping, the ambiguity resolver, the complex    *)
(* table builder and the per-complex significance tester.                  *)
(*                                                                         *)
(* Python values that share a tuple or a comparison are records            *)
(* [t, s, n, d]: a str, a float (the exact fraction n/d; rounding of       *)
(* binary floating point is not modelled) or None.  Text written to the    *)
(* result table is a TLA+ string; a line is the sequence of its cells,     *)
(* the tab and newline characters being cells of their own.                *)
(***************************************************************************)
EXTENDS Integers, Sequences, FiniteSets, TLC

VARIABLES
    species,     \* argument of process_corum_data
    pc,          \* position in process_corum_data / analyse_corum_data
    loaded,      \* the inputs read so far
    core,        \* core: the complexes in core.strucs order
    coex,        \* the pairwise score source (defined pairs only)
    decay_defs,  \* decay_defs: secondary id -> label
    opened,      \* whether the output file has been opened for writing
    outfile,     \* the result table on disk: a sequence of lines
    ci,          \* index of the next complex of core.strucs
    error,       \* the exception that ended the run, "" when none
    rand,        \* the module global read by analyse_corum_data
    report,      \* what analyse_corum_data found
    call,        \* which function a direct call applied
    arg,         \* the argument of a direct call
    ret          \* the value a direct call returned

vars == <<species, pc, loaded, core, coex, decay_defs, opened, outfile, ci,
          error, rand, report, call, arg, ret>>

(***************************************************************************)
(* Bounds and universes                                                    *)
(***************************************************************************)
MaxMembers == 4
MaxScore == 2
MaxSubunits == 3
MaxRows == 4

Entrez == {"e1", "e2", "e3"}
Uniprot == {"P1", "P2"}
Labels == {"NED", "ED"}
StrucIds == <<"c1", "c2", "c3", "c4", "c5">>
SpeciesArgs == {"human", "mouse", "rat"}

Range(s) == {s[i] : i \in 1..Len(s)}
SeqsUpTo(S, n) == UNION {[1..k -> S] : k \in 1..n}

(***************************************************************************)
(* Python values                                                           *)
(***************************************************************************)
PyStr(s) == [t |-> "str", s |-> s, n |-> 0, d |-> 1]
PyNone == [t |-> "None", s |-> "", n |-> 0, d |-> 1]
NA == PyStr("NA")

RECURSIVE Gcd(_, _)
Gcd(a, b) == IF b = 0 THEN a ELSE Gcd(b, a % b)

PyFloat(n, d) ==
    LET g == Gcd(n, d)
    IN  [t |-> "float", s |-> "", n |-> n \div g, d |-> d \div g]

\* str(item)
str(v) ==
    IF v.t = "float" THEN ToString(v.n) \o "/" \o ToString(v.d)
    ELSE IF v.t = "None" THEN "None"
    ELSE v.s

FloatTexts == {<<n, d>> : n \in 0..(4 * (MaxScore + 1)), d \in 1..4}

\* float(text): the number whose text this is
float(s) ==
    LET f == CHOOSE q \in FloatTexts :
                 /\ Gcd(q[1], q[2]) = 1
                 /\ ToString(q[1]) \o "/" \o ToString(q[2]) = s
    IN  PyFloat(f[1], f[2])

RECURSIVE np_sum(_)
np_sum(vals) ==
    IF vals = <<>> THEN PyFloat(0, 1)
    ELSE LET r == np_sum(Tail(vals))
             h == Head(vals)
         IN  PyFloat(h.n * r.d + r.n * h.d, h.d * r.d)

\* np.mean(vals) of a non-empty list
np_mean(vals) ==
    LET total == np_sum(vals)
    IN  PyFloat(total.n, total.d * Len(vals))

\* a > b on floats
gt(a, b) == a.n * b.d > b.n * a.d

(***************************************************************************)
(* Coexpression aggregator                                                 *)
(***************************************************************************)
Pairs == {{p, q} : p \in Entrez, q \in Entrez} \ {{p} : p \in Entrez}
CoexSources == UNION {[ps -> 1..MaxScore] : ps \in SUBSET Pairs}

\* coex.get_coexpression(protein, protein2): a correlation, or None
get_coexpression(cx, protein, protein2) ==
    IF {protein, protein2} \in DOMAIN cx
    THEN PyFloat(cx[{protein, protein2}], 1)
    ELSE PyNone

dict_keys_mut_no_dedup(members, acc) == acc \o members

\* the keys of {protein: [] for protein in members}, in insertion order
RECURSIVE dict_keys(_, _)
dict_keys(members, acc) ==
    IF members = <<>> THEN acc
    ELSE dict_keys(Tail(members),
                   IF Head(members) \in Range(acc) THEN acc
                   ELSE Append(acc, Head(members)))

\* the inner loop: the scores collected for protein
RECURSIVE inner_loop(_, _, _, _)
inner_loop(cx, protein, keys, acc) ==
    IF keys = <<>> THEN acc
    ELSE LET protein2 == Head(keys)
             cor == get_coexpression(cx, protein, protein2)
         IN  inner_loop(cx, protein, Tail(keys),
                        IF protein = protein2 THEN acc
                        ELSE IF cor = PyNone THEN acc
                        ELSE Append(acc, cor))

calculate_avg_coexpression(cx, members) ==
    LET keys == dict_keys(members, <<>>)
    IN  [protein \in Range(keys) |->
            LET cors == inner_loop(cx, protein, keys, <<>>)
            IN  IF Len(cors) < 1 THEN NA ELSE np_mean(cors)]


(***************************************************************************)
(* Primary id -> secondary id inside a complex                             *)
(***************************************************************************)
\* list.index(x): the first position of x
index(list, x) ==
    CHOOSE k \in 1..Len(list) :
        list[k] = x /\ \A j \in 1..(k - 1) : list[j] # x

RECURSIVE match_scan_down(_, _, _)
match_scan_down(comp, entrezid, i) ==
    IF i < 1 THEN PyNone
    ELSE IF entrezid \in Range(comp.entrez[i])
    THEN PyStr(comp.uniprot[i][index(comp.entrez[i], entrezid)])
    ELSE match_scan_down(comp, entrezid, i - 1)

match_mut_last_slot(comp, entrezid) ==
    match_scan_down(comp, entrezid, Len(comp.entrez))

\* the for loop of match_entrez_to_uniprot from slot i on; falling off
\* the end of the function returns None
RECURSIVE match_scan(_, _, _)
match_scan(comp, entrezid, i) ==
    IF i > Len(comp.entrez) THEN PyNone
    ELSE IF entrezid \in Range(comp.entrez[i])
    THEN PyStr(comp.uniprot[i][index(comp.entrez[i], entrezid)])
    ELSE match_scan(comp, entrezid, i + 1)

match_entrez_to_uniprot(comp, entrezid) == match_scan(comp, entrezid, 1)

(***************************************************************************)
(* Ambiguity resolver                                                      *)
(***************************************************************************)
\* decay_defs.get(upr, 'NA')
decay_get(defs, upr) ==
    IF upr.t = "str" /\ upr.s \in DOMAIN defs THEN PyStr(defs[upr.s]) ELSE NA

\* the tuple (struc, sub, upr, coexpression, uprdef, species)
possibility(comp, avg, defs, sp, sub) ==
    LET upr == match_entrez_to_uniprot(comp, sub)
    IN  <<PyStr(comp.struc), PyStr(sub), upr, avg[sub],
          decay_get(defs, upr), PyStr(sp)>>

\* x.count('NA')
count_NA(x) == Cardinality({i \in 1..Len(x) : x[i] = NA})

sort_key_mut_coex_only(x) == <<0, count_NA(<<x[4]>>)>>

\* key=lambda x: (x.count('NA'), [x[3]].count('NA'))
sort_key(x) == <<count_NA(x), count_NA(<<x[4]>>)>>

\* tuple comparison k1 < k2
key_lt(k1, k2) == k1[1] < k2[1] \/ (k1[1] = k2[1] /\ k1[2] < k2[2])

\* x goes behind every element whose key is not greater: the sort is stable
RECURSIVE insert_by_key(_, _)
insert_by_key(sorted, x) ==
    IF sorted = <<>> THEN <<x>>
    ELSE IF key_lt(sort_key(x), sort_key(Head(sorted)))
    THEN <<x>> \o sorted
    ELSE <<Head(sorted)>> \o insert_by_key(Tail(sorted), x)

RECURSIVE list_sort_mut_unstable(_, _)
list_sort_mut_unstable(list, acc) ==
    IF list = <<>> THEN acc
    ELSE list_sort_mut_unstable(
             Tail(list),
             IF acc # <<>> /\ ~key_lt(sort_key(Head(acc)), sort_key(Head(list)))
             THEN <<Head(list)>> \o acc
             ELSE insert_by_key(acc, Head(list)))

\* possibilities.sort(key=...)
RECURSIVE list_sort(_, _)
list_sort(list, acc) ==
    IF list = <<>> THEN acc
    ELSE list_sort(Tail(list), insert_by_key(acc, Head(list)))

get_best_from_multiple_subs(comp, avg, defs, sp, subunits) ==
    LET possibilities ==
            [i \in 1..Len(subunits) |->
                possibility(comp, avg, defs, sp, subunits[i])]
        sorted == list_sort(possibilities, <<>>)
    IN  [k \in 1..6 |-> str(sorted[1][k])]

(***************************************************************************)
(* Complex table builder                                                   *)
(***************************************************************************)
\* '\t'.join(info)
RECURSIVE join_tab(_)
join_tab(info) ==
    IF Len(info) <= 1 THEN info
    ELSE <<Head(info), "\t">> \o join_tab(Tail(info))

header == join_tab(<<"comp", "entrez", "uniprot", "avg.coex", "def">>) \o <<"\n">>

\* [p for sublist in comp.entrez for p in sublist]
RECURSIVE flatten(_)
flatten(lists) ==
    IF lists = <<>> THEN <<>> ELSE Head(lists) \o flatten(Tail(lists))

\* the body of "for subunit in comp.entrez": the fields of the slot's row
slot_info(comp, avg, defs, sp, subunit) ==
    IF Len(subunit) = 1
    THEN LET upr == match_entrez_to_uniprot(comp, subunit[1])
             info == <<PyStr(comp.struc), PyStr(subunit[1]), upr,
                       avg[subunit[1]], decay_get(defs, upr), PyStr(sp)>>
         IN  [k \in 1..6 |-> str(info[k])]
    ELSE get_best_from_multiple_subs(comp, avg, defs, sp, subunit)

write_complex_mut_reversed(comp, cx, defs, sp) ==
    LET avg == calculate_avg_coexpression(cx, flatten(comp.entrez))
        m == Len(comp.entrez)
    IN  [i \in 1..m |->
            join_tab(slot_info(comp, avg, defs, sp, comp.entrez[m + 1 - i]))
                \o <<"\n">>]

\* the body of "for struc in core.strucs": the lines written for one complex
write_complex(comp, cx, defs, sp) ==
    LET entrez_list == flatten(comp.entrez)
        avg == calculate_avg_coexpression(cx, entrez_list)
    IN  [i \in 1..Len(comp.entrez) |->
            join_tab(slot_info(comp, avg, defs, sp, comp.entrez[i]))
                \o <<"\n">>]


(***************************************************************************)
(* Paired significance tester                                              *)
(***************************************************************************)
\* the truth value of a str
truthy(s) == s # ""

Whitespace == {"\t", "\n", " ", ""}

RECURSIVE lstrip(_)
lstrip(cells) ==
    IF cells # <<>> /\ Head(cells) \in Whitespace THEN lstrip(Tail(cells))
    ELSE cells

RECURSIVE rstrip(_)
rstrip(cells) ==
    IF cells # <<>> /\ cells[Len(cells)] \in Whitespace
    THEN rstrip(SubSeq(cells, 1, Len(cells) - 1))
    ELSE cells

\* line.strip()
strip(line) == rstrip(lstrip(line))

\* text.split('\t'): cur is the field being read, acc the fields read
RECURSIVE split_tab(_, _, _)
split_tab(cells, cur, acc) ==
    IF cells = <<>> THEN Append(acc, cur)
    ELSE IF Head(cells) = "\t" THEN split_tab(Tail(cells), "", Append(acc, cur))
    ELSE split_tab(Tail(cells), cur \o Head(cells), acc)

\* [line.strip().split('\t') for line in infile if '']
read_data(infile) ==
    LET kept == SelectSeq(infile, LAMBDA line : truthy(""))
    IN  [i \in 1..Len(kept) |-> split_tab(strip(kept[i]), "", <<>>)]

\* tuple(line[-3:-1])
slice_m3_m1(line) ==
    LET L == Len(line)
    IN  SubSeq(line, IF L - 2 < 1 THEN 1 ELSE L - 2, L - 1)

\* strucs: the keys in insertion order, and each key's list
group_strucs(data) ==
    LET keys == dict_keys([i \in 1..Len(data) |-> data[i][1]], <<>>)
    IN  [keys |-> keys,
         rows |-> [k \in Range(keys) |->
                     LET mine == SelectSeq(data, LAMBDA line : line[1] = k)
                     IN  [i \in 1..Len(mine) |-> slice_m3_m1(mine[i])]]]

\* the values appended to nvals (label 'NED') or evals (label 'ED')
RECURSIVE vals_of(_, _)
vals_of(comp, label) ==
    IF comp = <<>> THEN <<>>
    ELSE LET subunit == Head(comp)
             rest == vals_of(Tail(comp), label)
         IN  IF subunit[1] = "NA" THEN rest
             ELSE IF subunit[2] = label THEN <<float(subunit[1])>> \o rest
             ELSE rest

\* neither "continue" of the loop body is taken: the complex is a trial
counts_as_trial(comp) ==
    LET nvals == vals_of(comp, "NED")
        evals == vals_of(comp, "ED")
    IN  /\ ~(Len(comp) <= 2)
        /\ ~(Len(nvals) = 0 \/ Len(evals) = 0 \/ nvals = evals)

\* np.mean(nvals) > np.mean(evals)
is_success(comp) ==
    gt(np_mean(vals_of(comp, "NED")), np_mean(vals_of(comp, "ED")))

\* the orders random.shuffle can leave the labels in
shuffles(comp) ==
    {[i \in 1..Len(comp) |-> <<comp[i][1], comp[perm[i]][2]>>] :
        perm \in Permutations(1..Len(comp))}

\* "for struc in strucs" over the keys left, from the counters in acc
RECURSIVE test_loop(_, _, _)
test_loop(keys, rows, acc) ==
    IF keys = <<>> THEN acc
    ELSE LET struc == Head(keys)
             comp == rows[struc]
         IN  test_loop(Tail(keys), rows,
                 IF ~counts_as_trial(comp) THEN acc
                 ELSE [acc EXCEPT
                          !.strucs_for_plot = Append(@, struc),
                          !.trials = @ + 1,
                          !.success = IF is_success(comp) THEN @ + 1 ELSE @])

\* the locals of analyse_corum_data at its last line
NoReport ==
    [error |-> "", strucs |-> [keys |-> <<>>, rows |-> <<>>],
     success |-> 0, trials |-> 0, strucs_for_plot |-> <<>>]

\* analyse_corum_data(filename): every report a run can print; reading the
\* unset global rand raises NameError
analyse_corum_data(infile, r) ==
    LET strucs == group_strucs(read_data(infile))
        start == [NoReport EXCEPT !.strucs = strucs]
    IN  IF strucs.keys = <<>> THEN {start}
        ELSE IF r = "undefined" THEN {[start EXCEPT !.error = "NameError"]}
        ELSE IF r = "True"
        THEN {test_loop(strucs.keys, rows, start) :
                 rows \in {f \in [Range(strucs.keys) ->
                                     UNION {shuffles(strucs.rows[k]) :
                                                k \in Range(strucs.keys)}] :
                              \A k \in Range(strucs.keys) :
                                  f[k] \in shuffles(strucs.rows[k])}}
        ELSE {test_loop(strucs.keys, strucs.rows, start)}


(***************************************************************************)
(* Inputs                                                                  *)
(***************************************************************************)
\* a candidate: a primary id and the secondary id at the same index
Cands == Entrez \X Uniprot
Gaps == {"same", "slot", "complex"}

\* the complexes holding cands[i..], each candidate joining the last slot,
\* opening a slot or opening a complex
RECURSIVE build_core(_, _, _, _)
build_core(cands, gaps, i, acc) ==
    IF i > Len(cands) THEN acc
    ELSE LET c == cands[i]
             n == Len(acc)
         IN  build_core(cands, gaps, i + 1,
                 IF i = 1 \/ gaps[i - 1] = "complex"
                 THEN Append(acc, [struc |-> StrucIds[n + 1],
                                   entrez |-> <<<<c[1]>>>>,
                                   uniprot |-> <<<<c[2]>>>>])
                 ELSE IF gaps[i - 1] = "slot"
                 THEN [acc EXCEPT ![n].entrez = Append(@, <<c[1]>>),
                                  ![n].uniprot = Append(@, <<c[2]>>)]
                 ELSE [acc EXCEPT
                          ![n].entrez[Len(acc[n].entrez)] = Append(@, c[1]),
                          ![n].uniprot[Len(acc[n].uniprot)] = Append(@, c[2])])

\* ids are named in the order of their first appearance: renaming the ids
\* changes nothing the code reads, and the sources below range over every id
in_naming_order(ids, names) ==
    \A i \in 1..Len(ids) : \A k \in 1..Len(names) :
        ids[i] = names[k] =>
            \A j \in 1..(k - 1) : \E m \in 1..(i - 1) : ids[m] = names[j]

CandSeqs ==
    {cs \in SeqsUpTo(Cands, MaxSubunits) :
        /\ in_naming_order([i \in 1..Len(cs) |-> cs[i][1]], <<"e1", "e2", "e3">>)
        /\ in_naming_order([i \in 1..Len(cs) |-> cs[i][2]], <<"P1", "P2">>)}

\* what LoadCorum can return: every complex has a slot, every slot a
\* candidate, and the two id lists of a slot are index-aligned
Cores ==
    UNION {{build_core(cs, g, 1, <<>>) : g \in [1..(Len(cs) - 1) -> Gaps]} :
              cs \in CandSeqs}

\* the score sources of a run of the table builder
RunCoexSources == UNION {[ps -> {1}] : ps \in SUBSET Pairs}

\* what the classification file can hold: any of the secondary ids, P1 as
\* NED and P2 as ED
DecaySources ==
    {[u \in us |-> IF u = "P1" THEN "NED" ELSE "ED"] : us \in SUBSET Uniprot}

RandValues == {"undefined", "True", "False"}

ValueTexts == {"NA", str(PyFloat(1, 1)), str(PyFloat(2, 1))}

\* a data line of a result table
table_line(struc, value, label) ==
    join_tab(<<struc, "e1", "P1", value, label, "human">>) \o <<"\n">>

TableLines ==
    {table_line(c, v, l) : c \in {"c1", "c2"}, v \in ValueTexts, l \in Labels}

Tables == {<<header>> \o rows : rows \in {<<>>} \cup SeqsUpTo(TableLines, MaxRows)}

\* the grouped rows of one complex
GroupedRows == SeqsUpTo(ValueTexts \X (Labels \cup {"NA"}), MaxRows)

(***************************************************************************)
(* process_corum_data(species), then analyse_corum_data on its table       *)
(***************************************************************************)
Init ==
    /\ species \in SpeciesArgs
    /\ pc = "start"
    /\ loaded = {}
    /\ core = <<>>
    /\ coex = <<>>
    /\ decay_defs = <<>>
    /\ opened = FALSE
    /\ outfile = <<>>
    /\ ci = 0
    /\ error = ""
    /\ rand = "undefined"
    /\ report = NoReport
    /\ call = "none"
    /\ arg = <<>>
    /\ ret = <<>>

\* core = ix.dbloader.LoadCorum(species.title(), 'core')
LoadCorum ==
    /\ pc = "start"
    /\ \E c \in Cores : core' = c
    /\ loaded' = loaded \cup {"corum"}
    /\ pc' = "coex"
    /\ UNCHANGED <<species, coex, decay_defs, opened, outfile, ci, error,
                   rand, report, call, arg, ret>>

\* coex = coexpressdb.Coexpression()
LoadCoexpression ==
    /\ pc = "coex"
    /\ \E cx \in RunCoexSources : coex' = cx
    /\ loaded' = loaded \cup {"coexpressdb"}
    /\ pc' = "decay"
    /\ UNCHANGED <<species, core, decay_defs, opened, outfile, ci, error,
                   rand, report, call, arg, ret>>

\* the if/elif on species and decay_defs = {line[0]: line[-1] ...}
LoadDecay ==
    /\ pc = "decay"
    /\ species \in {"human", "mouse"}
    /\ \E d \in DecaySources : decay_defs' = d
    /\ loaded' = loaded \cup {"decay"}
    /\ pc' = "open"
    /\ UNCHANGED <<species, core, coex, opened, outfile, ci, error, rand,
                   report, call, arg, ret>>

\* neither branch binds data: the comprehension over data raises
LoadDecayUnbound ==
    /\ pc = "decay"
    /\ species \notin {"human", "mouse"}
    /\ error' = "UnboundLocalError"
    /\ pc' = "error"
    /\ UNCHANGED <<species, loaded, core, coex, decay_defs, opened, outfile,
                   ci, rand, report, call, arg, ret>>

\* with open(ofname, 'w') as outfile: outfile.write(header)
OpenOutput ==
    /\ pc = "open"
    /\ opened' = TRUE
    /\ outfile' = <<header>>
    /\ ci' = 1
    /\ pc' = "loop"
    /\ UNCHANGED <<species, loaded, core, coex, decay_defs, error, rand,
                   report, call, arg, ret>>

\* one iteration of "for struc in core.strucs"
WriteComplex ==
    /\ pc = "loop"
    /\ ci <= Len(core)
    /\ outfile' = outfile \o write_complex(core[ci], coex, decay_defs, species)
    /\ ci' = ci + 1
    /\ UNCHANGED <<species, pc, loaded, core, coex, decay_defs, opened, error,
                   rand, report, call, arg, ret>>

\* the loop is over and the with block closes the file
CloseOutput ==
    /\ pc = "loop"
    /\ ci > Len(core)
    /\ pc' = "written"
    /\ UNCHANGED <<species, loaded, core, coex, decay_defs, opened, outfile,
                   ci, error, rand, report, call, arg, ret>>

\* analyse_corum_data on the table just written
AnalyseCorumData ==
    /\ pc = "written"
    /\ report' \in analyse_corum_data(outfile, rand)
    /\ pc' = "reported"
    /\ UNCHANGED <<species, loaded, core, coex, decay_defs, opened, outfile,
                   ci, error, rand, call, arg, ret>>

Next ==
    \/ LoadCorum
    \/ LoadCoexpression
    \/ LoadDecay
    \/ LoadDecayUnbound
    \/ OpenOutput
    \/ WriteComplex
    \/ CloseOutput
    \/ AnalyseCorumData

Spec == Init /\ [][Next]_vars

(***************************************************************************)
(* Direct calls of the functions, on arguments drawn from the universes    *)
(***************************************************************************)
InitUnit ==
    /\ species = "human"
    /\ pc = "unit"
    /\ loaded = {}
    /\ core = <<>>
    /\ coex = <<>>
    /\ decay_defs = <<>>
    /\ opened = FALSE
    /\ outfile = <<>>
    /\ ci = 0
    /\ error = ""
    /\ rand = "undefined"
    /\ report = NoReport
    /\ call = "none"
    /\ arg = <<>>
    /\ ret = <<>>

CallAggregator ==
    /\ pc = "unit"
    /\ call = "none"
    /\ \E members \in SeqsUpTo(Entrez, MaxMembers), cx \in CoexSources :
           /\ arg' = members
           /\ coex' = cx
           /\ ret' = calculate_avg_coexpression(cx, members)
    /\ call' = "calculate_avg_coexpression"
    /\ UNCHANGED <<species, pc, loaded, core, decay_defs, opened, outfile, ci,
                   error, rand, report>>

CallMatch ==
    /\ pc = "unit"
    /\ call = "none"
    /\ \E c \in {x \in Cores : Len(x) = 1}, entrezid \in Entrez :
           /\ core' = c
           /\ arg' = entrezid
           /\ ret' = match_entrez_to_uniprot(c[1], entrezid)
    /\ call' = "match_entrez_to_uniprot"
    /\ UNCHANGED <<species, pc, loaded, coex, decay_defs, opened, outfile, ci,
                   error, rand, report>>

\* the loop body of analyse_corum_data below the shuffle, on one complex
CallComplexTest ==
    /\ pc = "unit"
    /\ call = "none"
    /\ \E comp \in GroupedRows :
           /\ arg' = comp
           /\ ret' = test_loop(<<"c1">>, [k \in {"c1"} |-> comp], NoReport)
    /\ call' = "test_loop"
    /\ UNCHANGED <<species, pc, loaded, core, coex, decay_defs, opened,
                   outfile, ci, error, rand, report>>

CallAnalyse ==
    /\ pc = "unit"
    /\ call = "none"
    /\ \E table \in Tables, r \in RandValues :
           /\ outfile' = table
           /\ rand' = r
           /\ report' \in analyse_corum_data(table, r)
    /\ call' = "analyse_corum_data"
    /\ arg' = <<>>
    /\ ret' = <<>>
    /\ UNCHANGED <<species, pc, loaded, core, coex, decay_defs, opened, ci,
                   error>>

NextUnit ==
    \/ CallAggregator
    \/ CallMatch
    \/ CallComplexTest
    \/ CallAnalyse

SpecUnit == InitUnit /\ [][NextUnit]_vars


(***************************************************************************)
(* Properties                                                              *)
(***************************************************************************)
RECURSIVE SumOver(_, _, _)
SumOver(S, cx, p) ==
    IF S = {} THEN 0
    ELSE LET q == CHOOSE x \in S : TRUE
         IN  cx[{p, q}] + SumOver(S \ {q}, cx, p)

\* the other distinct ids of the list that have a defined score with p
Partners(members, cx, p) ==
    {q \in Range(members) \ {p} : {p, q} \in DOMAIN cx}

\* C3: calculate_avg_coexpression maps each id of the membership list to
\* 'NA' exactly when no other distinct id of the list has a defined score
\* with it, and otherwise to the unweighted mean of the defined scores
\* between it and every other distinct id (one score per distinct id,
\* however often the id occurs in the list); a list holding a single id
\* yields 'NA' for it.
C3_AvgCoexpression ==
    call = "calculate_avg_coexpression" =>
        /\ DOMAIN ret = Range(arg)
        /\ \A p \in Range(arg) :
               LET ps == Partners(arg, coex, p)
               IN  /\ (ret[p] = NA) <=> (ps = {})
                   /\ ps # {} =>
                          /\ ret[p].t = "float"
                          /\ ret[p].n * Cardinality(ps)
                                 = ret[p].d * SumOver(ps, coex, p)
        /\ Cardinality(Range(arg)) = 1 => ret[arg[1]] = NA

\* a list with a repeated id in which some id averages two different scores
C3_Witness ==
    /\ call = "calculate_avg_coexpression"
    /\ Cardinality(Range(arg)) < Len(arg)
    /\ \E p \in Range(arg) :
           /\ Cardinality(Partners(arg, coex, p)) = 2
           /\ ret[p].t = "float"
           /\ ret[p].d = 2
    /\ \E p \in Range(arg) : Cardinality(Partners(arg, coex, p)) = 1

\* C8: an id that no slot of the complex contains is not mapped silently:
\* match_entrez_to_uniprot ends in a MissingIdentifierMapping error and
\* returns no placeholder.
C8_FailsLoudly ==
    (/\ call = "match_entrez_to_uniprot"
     /\ \A i \in 1..Len(core[1].entrez) : arg \notin Range(core[1].entrez[i]))
        => /\ error = "MissingIdentifierMapping"
           /\ ret # PyNone

\* how often the value occurs among the rows of the label, 'NA' values aside
ValueCount(comp, label, value) ==
    Cardinality({i \in 1..Len(comp) : comp[i] = <<value, label>>})

SameValueMultisets(comp) ==
    \A v \in ValueTexts \ {"NA"} :
        ValueCount(comp, "NED", v) = ValueCount(comp, "ED", v)

TableRows(table, c) ==
    LET mine == SelectSeq(Tail(table), LAMBDA line : line[1] = c)
    IN  [i \in 1..Len(mine) |-> <<mine[i][7], mine[i][9]>>]

\* the complex ids on the data lines of the table
TableStrucs(table) == {table[i][1] : i \in 2..Len(table)}

\* the numbers of the rows with that label, rows with value 'NA' dropped
LabelValues(rows, label) ==
    LET mine == SelectSeq(rows, LAMBDA r : r[1] # "NA" /\ r[2] = label)
    IN  [i \in 1..Len(mine) |-> float(mine[i][1])]

Contributes(rows) ==
    /\ Len(rows) > 2
    /\ LabelValues(rows, "NED") # <<>>
    /\ LabelValues(rows, "ED") # <<>>
    /\ LabelValues(rows, "NED") # LabelValues(rows, "ED")

NedMeanGreater(rows) ==
    gt(np_mean(LabelValues(rows, "NED")), np_mean(LabelValues(rows, "ED")))

\* C1: for any result table, analyse_corum_data reports trials = the number
\* of contributing complexes of the table (more than 2 rows and, 'NA'
\* values dropped, non-empty and non-identical NED and ED value lists) and
\* successes = the number of those whose NED mean exceeds their ED mean.
C1_ReportCountsContributing ==
    (call = "analyse_corum_data" /\ rand # "True") =>
        LET contributing ==
                {c \in TableStrucs(outfile) : Contributes(TableRows(outfile, c))}
        IN  /\ report.error = ""
            /\ report.trials = Cardinality(contributing)
            /\ report.success =
                   Cardinality({c \in contributing :
                                   NedMeanGreater(TableRows(outfile, c))})


\* the number of slots of the first n complexes
RECURSIVE SlotsBefore(_)
SlotsBefore(n) ==
    IF n <= 1 THEN 0 ELSE SlotsBefore(n - 1) + Len(core[n - 1].entrez)

\* the table is complete and holds the lines of complex k
Written(k) == pc = "written" /\ k \in 1..Len(core)

\* the fields of the line written for slot i of complex k
RowOf(k, i) ==
    LET line == outfile[1 + SlotsBefore(k) + i]
    IN  <<line[1], line[3], line[5], line[7], line[9], line[11]>>

\* the records of the candidates of slot i of the complex
Records(comp, i) ==
    LET avg == calculate_avg_coexpression(coex, flatten(comp.entrez))
    IN  [a \in 1..Len(comp.entrez[i]) |->
            possibility(comp, avg, decay_defs, species, comp.entrez[i][a])]

Texts(x) == [k \in 1..6 |-> str(x[k])]

NACount(x) == Cardinality({k \in 1..6 : x[k] = NA})

\* C6: one data line per subunit slot, in complex order and within a
\* complex in slot order, and the primary id on a slot's line is a
\* candidate of that slot.
C6_OneRowPerSlot ==
    pc = "written" =>
        /\ outfile[1] = header
        /\ Len(outfile) = 1 + SlotsBefore(Len(core) + 1)
        /\ \A k \in 1..Len(core) :
               \A i \in 1..Len(core[k].entrez) :
                   /\ RowOf(k, i)[1] = core[k].struc
                   /\ RowOf(k, i)[2] \in Range(core[k].entrez[i])

\* two complexes, the first with two slots, all written
C6_Witness ==
    /\ pc = "written"
    /\ Len(core) = 2
    /\ Len(core[1].entrez) = 2
    /\ Len(outfile) = 4
    /\ core[1].entrez[1] # core[1].entrez[2]

\* complex comp with the candidates of slot i reordered by perm
Reordered(comp, i, perm) ==
    [comp EXCEPT
        !.entrez[i] = [j \in 1..Len(@) |-> comp.entrez[i][perm[j]]],
        !.uniprot[i] = [j \in 1..Len(@) |-> comp.uniprot[i][perm[j]]]]

\* the resolver's answer for slot i of comp
Resolved(comp, i) ==
    get_best_from_multiple_subs(
        comp, calculate_avg_coexpression(coex, flatten(comp.entrez)),
        decay_defs, species, comp.entrez[i])

\* record a has strictly fewer 'NA' fields than every other of the records
StrictlyFewest(recs, a) ==
    \A b \in 1..Len(recs) : b # a => NACount(recs[a]) < NACount(recs[b])

\* C4: in a slot of 2 or more candidates, a candidate whose record has
\* strictly fewer 'NA' fields than every other candidate's is the one
\* written for the slot, and the one the resolver returns for every
\* order of the slot's candidates.
C4_FewestNASelected ==
    \A k \in 1..Len(core) : Written(k) =>
        \A i \in 1..Len(core[k].entrez) : Len(core[k].entrez[i]) >= 2 =>
            /\ LET recs == Records(core[k], i)
               IN  \A a \in 1..Len(recs) :
                       StrictlyFewest(recs, a) => RowOf(k, i) = Texts(recs[a])
            /\ \A perm \in Permutations(1..Len(core[k].entrez[i])) :
                   LET comp == Reordered(core[k], i, perm)
                       recs == Records(comp, i)
                   IN  \A a \in 1..Len(recs) :
                           StrictlyFewest(recs, a) =>
                               Resolved(comp, i) = Texts(recs[a])

\* candidate A, first in the slot, has a secondary id absent from the
\* classification lookup, candidate B's is present, both have a
\* coexpression value, and B is written
C4_Witness ==
    /\ pc = "written"
    /\ \E k \in 1..Len(core) : \E i \in 1..Len(core[k].entrez) :
           /\ Len(core[k].entrez[i]) = 2
           /\ LET A == Records(core[k], i)[1]
                  B == Records(core[k], i)[2]
              IN  /\ A[5] = NA /\ B[5] # NA
                  /\ A[4] # NA /\ B[4] # NA
                  /\ A[2] # B[2]
                  /\ RowOf(k, i) = Texts(B)

\* the resolver's key of a record: (number of 'NA' fields, 1 when the
\* coexpression field is 'NA')
Key(x) == <<NACount(x), IF x[4] = NA THEN 1 ELSE 0>>

KeyLeq(k1, k2) == k1[1] < k2[1] \/ (k1[1] = k2[1] /\ k1[2] <= k2[2])

\* the first of the records among those with the smallest key
FirstSmallest(recs) ==
    CHOOSE a \in 1..Len(recs) :
        /\ \A b \in 1..Len(recs) : KeyLeq(Key(recs[a]), Key(recs[b]))
        /\ \A b \in 1..(a - 1) : Key(recs[b]) # Key(recs[a])

\* C5: the record written for a slot of 2 or more candidates is that of
\* the first candidate, in slot order, among those with the
\* lexicographically smallest key (number of 'NA' fields, coexpression
\* is 'NA').
C5_FirstOfSmallestKey ==
    \A k \in 1..Len(core) : Written(k) =>
        \A i \in 1..Len(core[k].entrez) : Len(core[k].entrez[i]) >= 2 =>
            LET recs == Records(core[k], i)
            IN  RowOf(k, i) = Texts(recs[FirstSmallest(recs)])

\* two candidates with equal 'NA' counts, the first without a
\* coexpression value, the second with one: the second is written
C5_Witness ==
    /\ pc = "written"
    /\ \E k \in 1..Len(core) : \E i \in 1..Len(core[k].entrez) :
           /\ Len(core[k].entrez[i]) = 2
           /\ LET A == Records(core[k], i)[1]
                  B == Records(core[k], i)[2]
              IN  /\ NACount(A) = NACount(B)
                  /\ A[4] = NA /\ B[4] # NA
                  /\ RowOf(k, i) = Texts(B)

\* decay_defs' label of a secondary id, 'NA' when it has none
LabelOf(u) == IF u \in DOMAIN decay_defs THEN decay_defs[u] ELSE "NA"

\* C10 as stated: the secondary id of a slot's line is index-aligned with
\* the line's primary id inside that slot, and the label is the lookup of
\* that secondary id.
C10_AlignedInOwnSlot ==
    \A k \in 1..Len(core) : Written(k) =>
        \A i \in 1..Len(core[k].entrez) :
            /\ \E j \in 1..Len(core[k].entrez[i]) :
                   /\ core[k].entrez[i][j] = RowOf(k, i)[2]
                   /\ core[k].uniprot[i][j] = RowOf(k, i)[3]
            /\ RowOf(k, i)[5] = LabelOf(RowOf(k, i)[3])

\* the first slot of the complex that holds the id, and the id's first
\* position in it
FirstSlotWith(comp, e) ==
    CHOOSE i \in 1..Len(comp.entrez) :
        /\ e \in Range(comp.entrez[i])
        /\ \A h \in 1..(i - 1) : e \notin Range(comp.entrez[h])

FirstPosition(list, e) ==
    CHOOSE j \in 1..Len(list) : list[j] = e /\ \A h \in 1..(j - 1) : list[h] # e

\* C10 amended: the secondary id of a slot's line is the one index-aligned
\* with the first occurrence of the line's primary id in the first slot of
\* the complex that holds that id, and the label is the lookup of that
\* secondary id.
C10_AlignedInFirstSlot ==
    \A k \in 1..Len(core) : Written(k) =>
        \A i \in 1..Len(core[k].entrez) :
            LET e == RowOf(k, i)[2]
                i0 == FirstSlotWith(core[k], e)
            IN  /\ RowOf(k, i)[3]
                       = core[k].uniprot[i0][FirstPosition(core[k].entrez[i0], e)]
                /\ RowOf(k, i)[5] = LabelOf(RowOf(k, i)[3])

\* a primary id held by two slots with different secondary ids: the second
\* slot's line carries the first slot's secondary id
C10_Witness ==
    /\ pc = "written"
    /\ \E k \in 1..Len(core) :
           /\ Len(core[k].entrez) = 2
           /\ core[k].entrez[1] = core[k].entrez[2]
           /\ Len(core[k].entrez[1]) = 1
           /\ core[k].uniprot[1] # core[k].uniprot[2]
           /\ RowOf(k, 2)[3] = core[k].uniprot[1][1]
           /\ LabelOf(core[k].uniprot[1][1]) # LabelOf(core[k].uniprot[2][1])

\* C2: reading the written table back and grouping by complex id gives,
\* for every complex, the (coexpression value, label) pairs of its lines
\* in the order they were written.
C2_RoundTrip ==
    pc = "reported" =>
        \A k \in 1..Len(core) :
            /\ core[k].struc \in Range(report.strucs.keys)
            /\ report.strucs.rows[core[k].struc]
                   = [i \in 1..Len(core[k].entrez) |->
                         <<RowOf(k, i)[4], RowOf(k, i)[5]>>]

\* C9: with a species other than human or mouse the run ends in an
\* InvalidConfiguration error before any input is loaded and without the
\* output file being opened.
C9_FailsBeforeIO ==
    (species \notin {"human", "mouse"} /\ pc = "error") =>
        /\ error = "InvalidConfiguration"
        /\ loaded = {}
        /\ ~opened
        /\ outfile = <<>>

=============================================================================
